---- MODULE Spec2Model ----
(***************************************************************************)
(* Scripts/extract_heji2_prime_glyphs.py as a state machine.               *)
(*                                                                         *)
(* Python values are represented as follows.                               *)
(*   str     a sequence of code points (a Python str is one), "" is <<>>   *)
(*   dict    a function; its DOMAIN is the key set, {} is <<>>             *)
(*   list    a sequence                                                    *)
(*   None    the empty sequence, a value v that may be None is <<v>>       *)
(*   float   ink ratios are exact fixed-point numbers, see RATIO_DEN       *)
(* An exception is an error record; a call that may raise returns a result *)
(* record [ok, val, err].                                                  *)
(***************************************************************************)
EXTENDS Integers, Sequences, FiniteSets, TLC

VARIABLES
    mapping,            \* the JSON document at MAPPING_PATH (an input file)
    fonts,              \* the font files at FONT_PATHS (input files), by file name
    pc,                 \* position in main, or in a direct call of a function
    primes,             \* main: mapping["primeComponents"]
    base_down,          \* main: codepoint of prime 11's down glyph
    base_up,            \* main: codepoint of prime 11's up glyph
    available_points,   \* main: all_codepoints(FONT_PATHS)
    resolved,           \* main: prime -> <<down, up>>
    idx,                \* main: index of the verifier loop (0-based, as enumerate)
    echo_idx,           \* main: index of the final loop over (29, 31)
    out,                \* standard output: the lines printed so far
    err,                \* the uncaught exception that ended the run, or NoError
    tested,             \* history: the codepoints tested with "cp not in available_points"
    arg,                \* direct call of a function: its argument
    ret                 \* direct call of a function: its result

vars == <<mapping, fonts, pc, primes, base_down, base_up, available_points,
          resolved, idx, echo_idx, out, err, tested, arg, ret>>

----------------------------------------------------------------------------
(* Bounds of the model.                                                    *)

MaxGlyphLen == 2
MaxMissing == 2
MaxTables == 2
MaxInk == 2

----------------------------------------------------------------------------
(* Module-level constants of the script.                                   *)

FONT_PATHS == <<"HEJI2.otf", "HEJI2Text.otf">>

\* the bug of a target sequence that runs on to the primes 29 and 31
PRIME_SEQUENCE_7 == <<11, 13, 17, 19, 23, 29, 31>>

PRIME_SEQUENCE == <<11, 13, 17, 19, 23>>

PRIME_29_31_CANDIDATE_PAIRS ==
    << <<58092, 58093>>, <<58094, 58095>>, <<58096, 58097>>, <<58098, 58099>> >>

\* glyph_metrics: the point size and the side of the square canvas
RASTER == 200

\* glyph_metrics: total = 200 * 200
total == RASTER * RASTER

\* An ink ratio ink/total, and the averages the summarizer takes of it, are
\* kept as the integer numerator over this denominator.  Two nested halvings
\* of a sum of two ratios stay integral, so the arithmetic is exact.
RATIO_DEN == 4 * total

----------------------------------------------------------------------------
(* Python helpers.                                                         *)

Error(type, msg, cp, prime) == [type |-> type, msg |-> msg, cp |-> cp, prime |-> prime]

NoError == Error("", "", 0, 0)

Return(v) == [ok |-> TRUE, val |-> v, err |-> NoError]

Raise(e) == [ok |-> FALSE, val |-> 0, err |-> e]

\* d.get(k, default)
Get(d, k, default) == IF k \in DOMAIN d THEN d[k] ELSE default

\* str(prime) for the primes main looks up
Str(p) == CASE p = 11 -> "11" [] p = 29 -> "29" [] p = 31 -> "31"

\* the range of a sequence
Range(s) == {s[i] : i \in DOMAIN s}

\* sum(xs) of a list of integers
RECURSIVE Sum(_)
Sum(xs) == IF xs = <<>> THEN 0 ELSE xs[1] + Sum(Tail(xs))

\* int(round(n / 2)), n the sum of the two widths of a pair: Python rounds a
\* half to the even neighbour
RoundHalf(n) ==
    IF n % 2 = 0 THEN n \div 2
    ELSE IF ((n - 1) \div 2) % 2 = 0 THEN (n - 1) \div 2 ELSE (n + 1) \div 2

\* one printed line; the text layout (U+%04X, %.4f) is not modelled
Line(kind, name, x, y, z) == [kind |-> kind, name |-> name, x |-> x, y |-> y, z |-> z]

----------------------------------------------------------------------------
(* codepoint_for_glyph                                                     *)

\* ord(ch): a character of a Python str is its code point, whatever its size
ord(ch) == ch

\* the bug of a UTF-16 string type: a character above 0xFFFF is two units
codepoint_for_glyph_utf16(glyph) ==
    LET units == [i \in 1..Len(glyph) |-> IF glyph[i] > 65535 THEN 2 ELSE 1]
        n == Sum(units)
    IN  IF n = 0 THEN Raise(Error("ValueError", "empty glyph", 0, 0))
        ELSE IF n > 1 THEN Raise(Error("ValueError", "multiple scalars", 0, 0))
        ELSE Return(glyph[1])

codepoint_for_glyph(glyph) ==
    LET scalars == [i \in 1..Len(glyph) |-> ord(glyph[i])]
    IN  IF scalars = <<>> THEN Raise(Error("ValueError", "empty glyph", 0, 0))
        ELSE IF Len(scalars) > 1
             THEN Raise(Error("ValueError", "multiple scalars", 0, 0))
        ELSE Return(scalars[1])

----------------------------------------------------------------------------
(* load_cmap, all_codepoints                                               *)
(* A font file is [valid, tables, hmtx, ink]: whether TTFont can parse it, *)
(* the subtables of its cmap in table order (each a dict codepoint ->      *)
(* glyph name), its horizontal metrics (glyph name -> advance width), and  *)
(* for each codepoint the number of pixels of luminance below 128 that the *)
(* rasteriser leaves on the canvas when asked to draw chr(codepoint); for  *)
(* a codepoint the font lacks, that is the ink of the glyph drawn instead. *)

\* the bug of merging without overriding: the first subtable wins
UpdateKeepFirst(cmap, table) ==
    [cp \in DOMAIN cmap \cup DOMAIN table |->
        IF cp \in DOMAIN cmap THEN cmap[cp] ELSE table[cp]]

\* cmap.update(table): the keys of table are added, its values win
Update(cmap, table) ==
    [cp \in DOMAIN cmap \cup DOMAIN table |->
        IF cp \in DOMAIN table THEN table[cp] ELSE cmap[cp]]

RECURSIVE MergeTables(_, _)
MergeTables(cmap, tables) ==
    IF tables = <<>> THEN cmap
    ELSE MergeTables(Update(cmap, tables[1]), Tail(tables))

load_cmap(font) == MergeTables(<<>>, font.tables)

RECURSIVE all_codepoints_from(_, _)
all_codepoints_from(points, font_list) ==
    IF font_list = <<>> THEN points
    ELSE all_codepoints_from(points \cup DOMAIN load_cmap(font_list[1]), Tail(font_list))

all_codepoints(font_list) == all_codepoints_from({}, font_list)

----------------------------------------------------------------------------
(* glyph_metrics                                                           *)

\* ink / total as a numerator over RATIO_DEN
Ratio(ink) == (ink * RATIO_DEN) \div total

\* the bug of no early return: the metrics of whatever is drawn for the codepoint
glyph_metrics_no_absent_case(font, codepoint) ==
    LET cmap == load_cmap(font)
        width == IF codepoint \in DOMAIN cmap THEN font.hmtx[cmap[codepoint]] ELSE 0
    IN  <<width, Ratio(font.ink[codepoint])>>

glyph_metrics(font, codepoint) ==
    LET cmap == load_cmap(font)
        name == IF codepoint \in DOMAIN cmap THEN <<cmap[codepoint]>> ELSE <<>>
    IN  IF name = <<>> THEN <<0, 0>>
        ELSE <<font.hmtx[name[1]], Ratio(font.ink[codepoint])>>

----------------------------------------------------------------------------
(* summarize_candidate_pairs                                               *)

\* aggregate[pair][font_path.name] = (avg_width, avg_ink), in insertion order:
\* a list of [pair, by_font], by_font a list of [name, avg_width, avg_ink]
font_summary(font_files, font_name, pair) ==
    LET widths == [i \in 1..Len(pair) |-> glyph_metrics(font_files[font_name], pair[i])[1]]
        inks   == [i \in 1..Len(pair) |-> glyph_metrics(font_files[font_name], pair[i])[2]]
    IN  [name |-> font_name,
         avg_width |-> RoundHalf(Sum(widths)),
         avg_ink |-> Sum(inks) \div Len(inks)]

build_aggregate(font_files) ==
    [i \in 1..Len(PRIME_29_31_CANDIDATE_PAIRS) |->
        [pair |-> PRIME_29_31_CANDIDATE_PAIRS[i],
         by_font |-> [j \in 1..Len(FONT_PATHS) |->
                        font_summary(font_files, FONT_PATHS[j],
                                     PRIME_29_31_CANDIDATE_PAIRS[i])]]]

\* key=lambda item: sum(info[1] for info in item[1].values()) / len(item[1])
ink_key(item) ==
    Sum([j \in 1..Len(item.by_font) |-> item.by_font[j].avg_ink]) \div Len(item.by_font)

\* the bug of a scan that replaces the best item on a tie: the last minimum
RECURSIVE min_scan_last(_, _)
min_scan_last(best, rest) ==
    IF rest = <<>> THEN best
    ELSE IF ink_key(rest[1]) <= ink_key(best) THEN min_scan_last(rest[1], Tail(rest))
    ELSE min_scan_last(best, Tail(rest))

\* min(items, key=ink_key): the first item of the smallest key
RECURSIVE min_scan(_, _)
min_scan(best, rest) ==
    IF rest = <<>> THEN best
    ELSE IF ink_key(rest[1]) < ink_key(best) THEN min_scan(rest[1], Tail(rest))
    ELSE min_scan(best, Tail(rest))

bracket_pair(aggregate) == min_scan(aggregate[1], Tail(aggregate)).pair

RECURSIVE pair_lines(_)
pair_lines(aggregate) ==
    IF aggregate = <<>> THEN <<>>
    ELSE <<Line("pair", "", aggregate[1].pair[1], aggregate[1].pair[2], 0)>>
         \o [j \in 1..Len(aggregate[1].by_font) |->
                Line("font", aggregate[1].by_font[j].name,
                     aggregate[1].by_font[j].avg_width,
                     aggregate[1].by_font[j].avg_ink, 0)]
         \o pair_lines(Tail(aggregate))

\* everything summarize_candidate_pairs prints
summarize_candidate_pairs(font_files) ==
    LET aggregate == build_aggregate(font_files)
    IN  <<Line("candidates_header", "", 0, 0, 0)>>
        \o pair_lines(aggregate)
        \o <<Line("bracket", "", bracket_pair(aggregate)[1], bracket_pair(aggregate)[2], 0)>>

----------------------------------------------------------------------------
(* main: the expressions of its steps                                      *)

\* primes[str(prime)]["1"][direction][0]["glyph"], lines 104-105
subscript_glyph(primes_, prime, direction) ==
    IF Str(prime) \notin DOMAIN primes_
    THEN Raise(Error("KeyError", "prime", 0, prime))
    ELSE IF "1" \notin DOMAIN primes_[Str(prime)]
    THEN Raise(Error("KeyError", "1", 0, prime))
    ELSE IF direction \notin DOMAIN primes_[Str(prime)]["1"]
    THEN Raise(Error("KeyError", direction, 0, prime))
    ELSE IF primes_[Str(prime)]["1"][direction] = <<>>
    THEN Raise(Error("IndexError", direction, 0, prime))
    ELSE IF "glyph" \notin DOMAIN primes_[Str(prime)]["1"][direction][1]
    THEN Raise(Error("KeyError", "glyph", 0, prime))
    ELSE Return(primes_[Str(prime)]["1"][direction][1]["glyph"])

\* codepoint_for_glyph(primes["11"]["1"][direction][0]["glyph"])
base_codepoint(primes_, direction) ==
    LET glyph == subscript_glyph(primes_, 11, direction)
    IN  IF glyph.ok THEN codepoint_for_glyph(glyph.val) ELSE glyph

\* the bug of a check that only asks for up above down
base_pair_ok_above(down, up) == up > down

\* not (base_up != base_down + 1), line 106
base_pair_ok(down, up) == ~(up # down + 1)

\* the bug of a stride of one codepoint per prime
derive_pair_stride1(base, i) == <<base + i, base + i + 1>>

\* down = base_down + idx * 2; up = down + 1, lines 113-114
derive_pair(base, i) == <<base + i * 2, base + i * 2 + 1>>

\* resolved[prime] = (down, up)
Store(dict, key, value) ==
    [k \in DOMAIN dict \cup {key} |-> IF k = key THEN value ELSE dict[k]]

\* the bug of testing the up codepoint first
check_order_up_first(pair) == <<pair[2], pair[1]>>

\* the bug of testing the down codepoint only
check_order_down_only(pair) == <<pair[1]>>

\* for cp in (down, up), line 116
check_order(pair) == <<pair[1], pair[2]>>

\* the codepoints the loop of lines 116-118 tests: up to the first one that
\* is not in available, all of them when none is
RECURSIVE tested_codepoints(_, _)
tested_codepoints(cps, available) ==
    IF cps = <<>> THEN <<>>
    ELSE IF cps[1] \notin available THEN <<cps[1]>>
    ELSE <<cps[1]>> \o tested_codepoints(Tail(cps), available)

\* the resolved-mapping report, lines 120-123
report_lines(resolved_) ==
    <<Line("resolved_header", "", 0, 0, 0)>>
    \o [i \in 1..Len(PRIME_SEQUENCE) |->
          Line("prime", "", PRIME_SEQUENCE[i],
               resolved_[PRIME_SEQUENCE[i]][1], resolved_[PRIME_SEQUENCE[i]][2])]

\* the primes of the final loop, line 127
ECHO_PRIMES == <<29, 31>>

\* entry.get(direction, [{}])[0].get("glyph", ""), lines 129-130
entry_glyph(entry, direction) ==
    LET records == Get(entry, direction, << <<>> >>)
    IN  IF records = <<>> THEN Raise(Error("IndexError", direction, 0, 0))
        ELSE Return(Get(records[1], "glyph", <<>>))

\* the bug of "if down or up"
echo_prime_either(primes_, prime) ==
    LET entry == Get(Get(primes_, Str(prime), <<>>), "1", <<>>)
        down == entry_glyph(entry, "down")
        up == entry_glyph(entry, "up")
    IN  IF ~down.ok THEN down
        ELSE IF ~up.ok THEN up
        ELSE IF down.val # <<>> \/ up.val # <<>>
        THEN IF ~codepoint_for_glyph(down.val).ok THEN codepoint_for_glyph(down.val)
             ELSE IF ~codepoint_for_glyph(up.val).ok THEN codepoint_for_glyph(up.val)
             ELSE Return(<<Line("prime", "", prime, codepoint_for_glyph(down.val).val,
                                codepoint_for_glyph(up.val).val)>>)
        ELSE Return(<<>>)

\* one iteration of the final loop, lines 128-134: the lines it prints, or
\* the exception it raises
echo_prime(primes_, prime) ==
    LET entry == Get(Get(primes_, Str(prime), <<>>), "1", <<>>)
        down == entry_glyph(entry, "down")
        up == entry_glyph(entry, "up")
    IN  IF ~down.ok THEN down
        ELSE IF ~up.ok THEN up
        ELSE IF down.val # <<>> /\ up.val # <<>>
        THEN IF ~codepoint_for_glyph(down.val).ok THEN codepoint_for_glyph(down.val)
             ELSE IF ~codepoint_for_glyph(up.val).ok THEN codepoint_for_glyph(up.val)
             ELSE Return(<<Line("prime", "", prime, codepoint_for_glyph(down.val).val,
                                codepoint_for_glyph(up.val).val)>>)
        ELSE Return(<<>>)

----------------------------------------------------------------------------
(* main: one action per step.  A step that raises ends the run in pc =     *)
(* "aborted" with the exception in err.                                    *)

\* mapping = json.loads(MAPPING_PATH.read_text()); primes = mapping["primeComponents"]
Load ==
    /\ pc = "load"
    /\ IF ~mapping.readable
       THEN /\ pc' = "aborted"
            /\ err' = Error("LoadError", "mapping", 0, 0)
            /\ UNCHANGED primes
       ELSE IF "primeComponents" \notin DOMAIN mapping.json
       THEN /\ pc' = "aborted"
            /\ err' = Error("KeyError", "primeComponents", 0, 0)
            /\ UNCHANGED primes
       ELSE /\ pc' = "base_down"
            /\ primes' = mapping.json["primeComponents"]
            /\ UNCHANGED err
    /\ UNCHANGED <<mapping, fonts, base_down, base_up, available_points, resolved,
                   idx, echo_idx, out, tested, arg, ret>>

\* base_down = codepoint_for_glyph(primes["11"]["1"]["down"][0]["glyph"])
ResolveBaseDown ==
    /\ pc = "base_down"
    /\ LET r == base_codepoint(primes, "down")
       IN  IF r.ok
           THEN pc' = "base_up" /\ base_down' = r.val /\ UNCHANGED err
           ELSE pc' = "aborted" /\ err' = r.err /\ UNCHANGED base_down
    /\ UNCHANGED <<mapping, fonts, primes, base_up, available_points, resolved,
                   idx, echo_idx, out, tested, arg, ret>>

\* base_up = codepoint_for_glyph(primes["11"]["1"]["up"][0]["glyph"])
ResolveBaseUp ==
    /\ pc = "base_up"
    /\ LET r == base_codepoint(primes, "up")
       IN  IF r.ok
           THEN pc' = "check_base" /\ base_up' = r.val /\ UNCHANGED err
           ELSE pc' = "aborted" /\ err' = r.err /\ UNCHANGED base_up
    /\ UNCHANGED <<mapping, fonts, primes, base_down, available_points, resolved,
                   idx, echo_idx, out, tested, arg, ret>>

\* if base_up != base_down + 1: raise ValueError
CheckBase ==
    /\ pc = "check_base"
    /\ IF base_pair_ok(base_down, base_up)
       THEN pc' = "fonts" /\ UNCHANGED err
       ELSE pc' = "aborted" /\ err' = Error("ValueError", "Unexpected base mapping", 0, 0)
    /\ UNCHANGED <<mapping, fonts, primes, base_down, base_up, available_points,
                   resolved, idx, echo_idx, out, tested, arg, ret>>

\* available_points = all_codepoints(FONT_PATHS); resolved = {}
ReadFonts ==
    /\ pc = "fonts"
    /\ IF \E i \in DOMAIN FONT_PATHS : ~fonts[FONT_PATHS[i]].valid
       THEN /\ pc' = "aborted"
            /\ err' = Error("TTLibError", "font", 0, 0)
            /\ UNCHANGED <<available_points, resolved, idx>>
       ELSE /\ pc' = "verify"
            /\ available_points' =
                   all_codepoints([i \in DOMAIN FONT_PATHS |-> fonts[FONT_PATHS[i]]])
            /\ resolved' = <<>>
            /\ idx' = 0
            /\ UNCHANGED err
    /\ UNCHANGED <<mapping, fonts, primes, base_down, base_up, echo_idx, out,
                   tested, arg, ret>>

\* one iteration of "for idx, prime in enumerate(PRIME_SEQUENCE)"
VerifyPrime ==
    /\ pc = "verify"
    /\ idx < Len(PRIME_SEQUENCE)
    /\ LET prime == PRIME_SEQUENCE[idx + 1]
           pair == derive_pair(base_down, idx)
           seen == tested_codepoints(check_order(pair), available_points)
           last == seen[Len(seen)]
       IN  /\ resolved' = Store(resolved, prime, pair)
           /\ tested' = tested \o seen
           /\ IF last \notin available_points
              THEN /\ pc' = "aborted"
                   /\ err' = Error("RuntimeError", "Missing codepoint", last, prime)
                   /\ UNCHANGED idx
              ELSE /\ idx' = idx + 1
                   /\ pc' = IF idx + 1 = Len(PRIME_SEQUENCE) THEN "report" ELSE "verify"
                   /\ UNCHANGED err
    /\ UNCHANGED <<mapping, fonts, primes, base_down, base_up, available_points,
                   echo_idx, out, arg, ret>>

\* print("Resolved HEJI2 prime mappings (11-23):") and a line per prime
Report ==
    /\ pc = "report"
    /\ out' = out \o report_lines(resolved)
    /\ pc' = "summarize"
    /\ UNCHANGED <<mapping, fonts, primes, base_down, base_up, available_points,
                   resolved, idx, echo_idx, err, tested, arg, ret>>

\* summarize_candidate_pairs(); print("Current heji2_mapping.json entries (29/31):")
Summarize ==
    /\ pc = "summarize"
    /\ out' = out \o summarize_candidate_pairs(fonts)
                  \o <<Line("current_header", "", 0, 0, 0)>>
    /\ echo_idx' = 0
    /\ pc' = "echo"
    /\ UNCHANGED <<mapping, fonts, primes, base_down, base_up, available_points,
                   resolved, idx, err, tested, arg, ret>>

\* one iteration of "for prime in (29, 31)"
EchoPrime ==
    /\ pc = "echo"
    /\ echo_idx < Len(ECHO_PRIMES)
    /\ LET r == echo_prime(primes, ECHO_PRIMES[echo_idx + 1])
       IN  IF r.ok
           THEN /\ out' = out \o r.val
                /\ echo_idx' = echo_idx + 1
                /\ pc' = IF echo_idx + 1 = Len(ECHO_PRIMES) THEN "done" ELSE "echo"
                /\ UNCHANGED err
           ELSE /\ pc' = "aborted"
                /\ err' = r.err
                /\ UNCHANGED <<out, echo_idx>>
    /\ UNCHANGED <<mapping, fonts, primes, base_down, base_up, available_points,
                   resolved, idx, tested, arg, ret>>

Next ==
    \/ Load
    \/ ResolveBaseDown
    \/ ResolveBaseUp
    \/ CheckBase
    \/ ReadFonts
    \/ VerifyPrime
    \/ Report
    \/ Summarize
    \/ EchoPrime

----------------------------------------------------------------------------
(* Direct calls of the functions, for the claims about one function.       *)

CallCodepointForGlyph ==
    /\ pc = "call"
    /\ arg.fn = "codepoint_for_glyph"
    /\ ret' = codepoint_for_glyph(arg.x)
    /\ pc' = "returned"
    /\ UNCHANGED <<mapping, fonts, primes, base_down, base_up, available_points,
                   resolved, idx, echo_idx, out, err, tested, arg>>

CallLoadCmap ==
    /\ pc = "call"
    /\ \E i \in DOMAIN FONT_PATHS :
          /\ arg' = [fn |-> "load_cmap", x |-> FONT_PATHS[i], y |-> 0]
          /\ ret' = load_cmap(fonts[FONT_PATHS[i]])
    /\ pc' = "returned"
    /\ UNCHANGED <<mapping, fonts, primes, base_down, base_up, available_points,
                   resolved, idx, echo_idx, out, err, tested>>

CallAllCodepoints ==
    /\ pc = "call"
    /\ arg' = [fn |-> "all_codepoints", x |-> "", y |-> 0]
    /\ ret' = all_codepoints([i \in DOMAIN FONT_PATHS |-> fonts[FONT_PATHS[i]]])
    /\ pc' = "returned"
    /\ UNCHANGED <<mapping, fonts, primes, base_down, base_up, available_points,
                   resolved, idx, echo_idx, out, err, tested>>

CallGlyphMetrics ==
    /\ pc = "call"
    /\ \E i \in DOMAIN FONT_PATHS, j \in DOMAIN PRIME_29_31_CANDIDATE_PAIRS, k \in 1..2 :
          /\ arg' = [fn |-> "glyph_metrics", x |-> FONT_PATHS[i],
                     y |-> PRIME_29_31_CANDIDATE_PAIRS[j][k]]
          /\ ret' = glyph_metrics(fonts[FONT_PATHS[i]], PRIME_29_31_CANDIDATE_PAIRS[j][k])
    /\ pc' = "returned"
    /\ UNCHANGED <<mapping, fonts, primes, base_down, base_up, available_points,
                   resolved, idx, echo_idx, out, err, tested>>

CallSummarize ==
    /\ pc = "call"
    /\ arg' = [fn |-> "summarize_candidate_pairs", x |-> "", y |-> 0]
    /\ out' = out \o summarize_candidate_pairs(fonts)
    /\ ret' = build_aggregate(fonts)
    /\ pc' = "returned"
    /\ UNCHANGED <<mapping, fonts, primes, base_down, base_up, available_points,
                   resolved, idx, echo_idx, err, tested>>

----------------------------------------------------------------------------
(* The input files the model is run on.                                    *)

\* the strings of at most n characters of an alphabet
Glyphs(alphabet, n) == UNION {[1..k -> alphabet] : k \in 0..n}

\* a value or its absence
Optional(values) == {<<>>} \cup {<<v>> : v \in values}

\* {"down": d, "up": u}, each key present when its value is
MkEntry(d, u) ==
    [k \in (IF d = <<>> THEN {} ELSE {"down"}) \cup (IF u = <<>> THEN {} ELSE {"up"}) |->
        IF k = "down" THEN d[1] ELSE u[1]]

\* the values of primes[<prime>] over the glyph strings given: the entry at
\* multiplicity "1" may be absent, so may its "down" and "up" lists, a list
\* has no or one glyph record, a record may lack its "glyph"
PrimeValues(glyphs) ==
    LET glyph_records == {<<>>} \cup {[glyph |-> g] : g \in glyphs}
        lists == {<<>>} \cup {<<r>> : r \in glyph_records}
        entries == {MkEntry(d, u) : d \in Optional(lists), u \in Optional(lists)}
    IN  {<<>>} \cup {[m \in {"1"} |-> e] : e \in entries}

\* {"11": v11, "29": v29, "31": v31}, each key present when its value is
MkPrimes(v11, v29, v31) ==
    [k \in (IF v11 = <<>> THEN {} ELSE {"11"}) \cup (IF v29 = <<>> THEN {} ELSE {"29"})
           \cup (IF v31 = <<>> THEN {} ELSE {"31"}) |->
        IF k = "11" THEN v11[1] ELSE IF k = "29" THEN v29[1] ELSE v31[1]]

MkMapping(v11, v29, v31) ==
    [readable |-> TRUE, json |-> [primeComponents |-> MkPrimes(v11, v29, v31)]]

\* {"1": {"down": [{"glyph": chr(down)}], "up": [{"glyph": chr(up)}]}}
PlainValue(down, up) ==
    [m \in {"1"} |-> [down |-> <<[glyph |-> <<down>>]>>, up |-> <<[glyph |-> <<up>>]>>]]

Default11 == PlainValue(58064, 58065)
Default29 == PlainValue(58092, 58093)
Default31 == PlainValue(58094, 58095)
DefaultMapping == MkMapping(<<Default11>>, <<Default29>>, <<Default31>>)

\* U+E2D0 .. U+E2D9, the codepoints derived from the base U+E2D0
DerivedCps == 58064..58073

\* U+E2D0 .. U+E2DD and the candidate codepoints U+E2EC .. U+E2F3
AllCps == 58064..58077 \cup 58092..58099

CandidateCps == 58092..58099

\* the glyph name of a codepoint in a cmap subtable: variant 0 or 1
GlyphName(cp, variant) == <<cp, variant>>

\* advance widths, odd and even
WidthOf(name) == 400 + 51 * (name[1] % 4) + name[2]

\* the pixels of ink level n: multiples of 625 of the 40000, so that ink/total
\* is n/64 and the averages of the summarizer are exact in binary floating point
InkOf(level) == 625 * level

\* a font of one cmap subtable over the codepoints cps, every codepoint drawn
\* with the ink of the level given for it
PlainFont(cps, level) ==
    [valid |-> TRUE,
     tables |-> <<[cp \in cps |-> GlyphName(cp, 0)]>>,
     hmtx |-> [name \in {GlyphName(cp, v) : cp \in AllCps, v \in 0..1} |-> WidthOf(name)],
     ink |-> [cp \in AllCps |-> InkOf(level[cp])]]

LevelOne == [cp \in AllCps |-> 1]

DefaultFont == PlainFont(AllCps, LevelOne)

MkFonts(f1, f2) ==
    [name \in Range(FONT_PATHS) |-> IF name = FONT_PATHS[1] THEN f1 ELSE f2]

DefaultFonts == MkFonts(DefaultFont, DefaultFont)

Input(m, f) == [mapping |-> m, fonts |-> f]

\* the document varies in prime 11: unreadable, without "primeComponents",
\* or any entry over the strings of the base alphabet U+E2D0, E2D1, E2D2, E2D5
BaseInputs ==
    {Input([readable |-> FALSE, json |-> <<>>], DefaultFonts),
     Input([readable |-> TRUE, json |-> <<>>], DefaultFonts)}
    \cup {Input(MkMapping(v11, <<Default29>>, <<Default31>>), DefaultFonts) :
            v11 \in Optional(PrimeValues(Glyphs({58064, 58065, 58066, 58069}, MaxGlyphLen)))}

\* the fonts vary in the derived codepoints they lack, at most MaxMissing
\* codepoints being lacked by either font; or a font is not a font
AvailInputs ==
    {Input(DefaultMapping, MkFonts([DefaultFont EXCEPT !.valid = v1],
                                   [DefaultFont EXCEPT !.valid = v2])) :
        v1 \in BOOLEAN, v2 \in BOOLEAN}
    \cup UNION {{Input(DefaultMapping, MkFonts(PlainFont(AllCps \ m1, LevelOne),
                                               PlainFont(AllCps \ m2, LevelOne))) :
                    m1 \in SUBSET m, m2 \in SUBSET m} :
                 m \in {u \in SUBSET DerivedCps : Cardinality(u) <= MaxMissing}}

\* the document varies in primes 29 and 31, over the strings of one character
EchoInputs ==
    {Input(MkMapping(<<Default11>>, v29, v31), DefaultFonts) :
        v29 \in Optional(PrimeValues(Glyphs({58092}, MaxGlyphLen))),
        v31 \in Optional(PrimeValues(Glyphs({58094}, MaxGlyphLen)))}

MainInputs == BaseInputs \cup AvailInputs \cup EchoInputs

Start(input, pc0, arg0) ==
    /\ mapping = input.mapping
    /\ fonts = input.fonts
    /\ pc = pc0
    /\ primes = <<>>
    /\ base_down = 0
    /\ base_up = 0
    /\ available_points = {}
    /\ resolved = <<>>
    /\ idx = 0
    /\ echo_idx = 0
    /\ out = <<>>
    /\ err = NoError
    /\ tested = <<>>
    /\ arg = arg0
    /\ ret = <<>>

NoCall == [fn |-> "", x |-> "", y |-> 0]

\* a run of main
Init == \E input \in MainInputs : Start(input, "load", NoCall)

Spec == Init /\ [][Next]_vars

----------------------------------------------------------------------------
(* Direct calls: the inputs and the specifications.                        *)

\* strings over eight codepoints, three of them above 0xFFFF
ResolverGlyphs ==
    Glyphs({65, 58064, 58065, 58069, 65535, 65536, 119082, 1114111}, MaxGlyphLen)

InitResolver ==
    \E g \in ResolverGlyphs :
        Start(Input(DefaultMapping, DefaultFonts), "call",
              [fn |-> "codepoint_for_glyph", x |-> g, y |-> 0])

NextResolver == CallCodepointForGlyph

SpecResolver == InitResolver /\ [][NextResolver]_vars

\* the cmap subtables over U+E2EC and U+E2ED: any key set, either glyph name
CmapTables ==
    UNION {{[cp \in keys |-> GlyphName(cp, v[cp])] : v \in [keys -> 0..1]} :
             keys \in SUBSET {58092, 58093}}

TablesFont(tables) == [DefaultFont EXCEPT !.tables = tables]

\* the first font has up to MaxTables subtables, the second has one
CmapInputs ==
    {Input(DefaultMapping, MkFonts(TablesFont(t1), TablesFont(<<t2>>))) :
        t1 \in UNION {[1..k -> CmapTables] : k \in 0..MaxTables}, t2 \in CmapTables}

InitCmap == \E input \in CmapInputs : Start(input, "call", NoCall)

NextCmap == CallLoadCmap \/ CallAllCodepoints

SpecCmap == InitCmap /\ [][NextCmap]_vars

\* the candidate pair a candidate codepoint belongs to
PairIndex(cp) == CHOOSE j \in DOMAIN PRIME_29_31_CANDIDATE_PAIRS :
                    cp \in Range(PRIME_29_31_CANDIDATE_PAIRS[j])

\* fonts that lack candidate codepoints (the first any of them, the second
\* the same ones, all or none), every glyph drawn with ink level 1; and fonts
\* that have all of them, the two glyphs of a pair drawn in a font with any
\* ink level of 1..MaxInk
MetricsInputs ==
    {Input(DefaultMapping, MkFonts(PlainFont(AllCps \ m1, LevelOne),
                                   PlainFont(AllCps \ m2, LevelOne))) :
        m1 \in SUBSET CandidateCps, m2 \in {{}, CandidateCps}}
    \cup {Input(DefaultMapping, MkFonts(PlainFont(AllCps \ m1, LevelOne),
                                        PlainFont(AllCps \ m1, LevelOne))) :
            m1 \in SUBSET CandidateCps}
    \cup {Input(DefaultMapping,
                MkFonts(PlainFont(AllCps, [cp \in AllCps |->
                            IF cp \in CandidateCps THEN lv[1, PairIndex(cp)] ELSE 1]),
                        PlainFont(AllCps, [cp \in AllCps |->
                            IF cp \in CandidateCps THEN lv[2, PairIndex(cp)] ELSE 1]))) :
            lv \in [(1..2) \X DOMAIN PRIME_29_31_CANDIDATE_PAIRS -> 1..MaxInk]}

InitMetrics == \E input \in MetricsInputs : Start(input, "call", NoCall)

NextMetrics == CallGlyphMetrics \/ CallSummarize

SpecMetrics == InitMetrics /\ [][NextMetrics]_vars

----------------------------------------------------------------------------
(* The claims.                                                             *)

\* the verifier loop has run through the whole target sequence
VerifierCompleted == idx = Len(PRIME_SEQUENCE)

\* the run was ended by the missing-codepoint error of the verifier loop
VerifierFailed == pc = "aborted" /\ err.type = "RuntimeError"

\* prime 11 is U+E2D0 / U+E2D1, U+E2D0 .. U+E2DD are all available, and the
\* verifier has finished
C1_Scenario ==
    /\ VerifierCompleted
    /\ base_down = 58064
    /\ base_up = 58065
    /\ 58064..58077 \subseteq available_points

DocumentBase == mapping.json["primeComponents"]["11"]["1"]["down"][1]["glyph"][1]

\* C2: in every state, the entries recorded in resolved are those of a prefix
\* of the target sequence, the entry of the prime at 0-based index i is
\* (B + 2i, B + 2i + 1) with B the codepoint of prime 11's down glyph in the
\* document, so up = down + 1 and consecutive downs differ by exactly 2,
\* whatever is available.
C2_StrideInvariant ==
    /\ \E n \in 0..Len(PRIME_SEQUENCE) :
          DOMAIN resolved = {PRIME_SEQUENCE[i] : i \in 1..n}
    /\ \A i \in DOMAIN PRIME_SEQUENCE :
          PRIME_SEQUENCE[i] \in DOMAIN resolved =>
             /\ resolved[PRIME_SEQUENCE[i]][1] = DocumentBase + 2 * (i - 1)
             /\ resolved[PRIME_SEQUENCE[i]][2] = DocumentBase + 2 * (i - 1) + 1
             /\ resolved[PRIME_SEQUENCE[i]][2] = resolved[PRIME_SEQUENCE[i]][1] + 1
             /\ i > 1 => resolved[PRIME_SEQUENCE[i]][1]
                            = resolved[PRIME_SEQUENCE[i - 1]][1] + 2

\* three entries recorded, the third one's codepoint missing
C2_Witness == VerifierFailed /\ Cardinality(DOMAIN resolved) = 3

\* the document's two glyphs of prime 11 decode, and up is not down + 1
BaseMismatch ==
    /\ mapping.readable
    /\ "primeComponents" \in DOMAIN mapping.json
    /\ base_codepoint(mapping.json["primeComponents"], "down").ok
    /\ base_codepoint(mapping.json["primeComponents"], "up").ok
    /\ base_codepoint(mapping.json["primeComponents"], "up").val
          # base_codepoint(mapping.json["primeComponents"], "down").val + 1

\* C3: when prime 11's up glyph decodes to another codepoint than down + 1,
\* the run gets no further than the base check, where it aborts with the
\* base-mapping error: no entry is ever recorded, no codepoint is ever tested
\* against the availability set (which is not even computed), no line printed.
C3_AbortBeforeVerification ==
    BaseMismatch =>
        /\ \/ pc \in {"load", "base_down", "base_up", "check_base"}
           \/ pc = "aborted" /\ err = Error("ValueError", "Unexpected base mapping", 0, 0)
        /\ resolved = <<>>
        /\ tested = <<>>
        /\ available_points = {}
        /\ out = <<>>

\* the example of the claim: down U+E2D0, up U+E2D5, aborted
C3_Witness ==
    /\ BaseMismatch
    /\ pc = "aborted"
    /\ base_down = 58064
    /\ base_up = 58069

\* the derived codepoints in the order the loop tests them: B .. B + 2n - 1
DerivedSeq == [k \in 1..(2 * Len(PRIME_SEQUENCE)) |-> base_down + (k - 1)]

\* the positions in DerivedSeq of the codepoints that are not available
AbsentPositions == {k \in DOMAIN DerivedSeq : DerivedSeq[k] \notin available_points}

FirstAbsent == CHOOSE k \in AbsentPositions : \A j \in AbsentPositions : k <= j

\* C4: the verifier loop ends in its error exactly when a derived codepoint
\* is absent from the availability set; the error names the first absent
\* codepoint in test order (down before up) and the prime it belongs to, the
\* entries recorded stop at that prime and no codepoint after it is tested.
\* When none is absent the loop completes, with an entry for every target
\* prime and every derived codepoint tested.
C4_FirstMissingCodepoint ==
    /\ pc = "verify" => idx < Len(PRIME_SEQUENCE)
    /\ VerifierFailed =>
          /\ AbsentPositions # {}
          /\ err.cp = DerivedSeq[FirstAbsent]
          /\ err.prime = PRIME_SEQUENCE[(FirstAbsent + 1) \div 2]
          /\ tested = SubSeq(DerivedSeq, 1, FirstAbsent)
          /\ DOMAIN resolved = {PRIME_SEQUENCE[i] : i \in 1..((FirstAbsent + 1) \div 2)}
    /\ (pc \in {"report", "summarize", "echo", "done"} \/ (pc = "aborted" /\ out # <<>>)) =>
          /\ AbsentPositions = {}
          /\ VerifierCompleted
          /\ tested = DerivedSeq
          /\ DOMAIN resolved = Range(PRIME_SEQUENCE)

\* U+E2D5, the up codepoint of 17, is the first absent one, U+E2D8 is absent too
C4_Witness ==
    /\ VerifierFailed
    /\ err.cp = 58069
    /\ err.prime = 17
    /\ 58072 \notin available_points

\* what main prints up to and including the header of the final echo
ReportKinds ==
    <<"resolved_header">> \o [i \in 1..Len(PRIME_SEQUENCE) |-> "prime"]
    \o <<"candidates_header">>
    \o [i \in 1..(3 * Len(PRIME_29_31_CANDIDATE_PAIRS)) |->
          IF i % 3 = 1 THEN "pair" ELSE "font"]
    \o <<"bracket", "current_header">>

\* C10: nothing is printed unless the base check and the verification of
\* every target prime succeeded; what is printed is, in this order, the
\* resolved-mapping header, one line per target prime in sequence order with
\* its resolved pair, the candidate-pair report ending in the recommendation,
\* the header of the echo and at most one line per echoed prime; the
\* candidate report is never printed before the whole resolved report.
C10_OutputGatingAndOrder ==
    /\ out # <<>> =>
          /\ base_up = base_down + 1
          /\ VerifierCompleted
          /\ \A k \in DOMAIN DerivedSeq : DerivedSeq[k] \in available_points
          /\ pc \in {"summarize", "echo", "done", "aborted"}
    /\ (pc \in {"load", "base_down", "base_up", "check_base", "fonts", "verify", "report"}
        \/ VerifierFailed) => out = <<>>
    /\ pc = "summarize" => Len(out) = 1 + Len(PRIME_SEQUENCE)
    /\ pc \in {"echo", "done"} => Len(out) >= Len(ReportKinds)
    /\ \A k \in DOMAIN out :
          /\ k <= Len(ReportKinds) => out[k].kind = ReportKinds[k]
          /\ (k > 1 /\ k <= 1 + Len(PRIME_SEQUENCE)) =>
                /\ out[k].x = PRIME_SEQUENCE[k - 1]
                /\ <<out[k].y, out[k].z>> = resolved[PRIME_SEQUENCE[k - 1]]
          /\ k > Len(ReportKinds) =>
                /\ out[k].kind = "prime"
                /\ out[k].x \in Range(ECHO_PRIMES)
                /\ k - Len(ReportKinds) <= Len(ECHO_PRIMES)
                /\ (k > Len(ReportKinds) + 1) => out[k - 1].x < out[k].x

\* a whole run, both echo lines printed
C10_Witness == pc = "done" /\ Len(out) = Len(ReportKinds) + 2

\* the document's primeComponents
DocumentPrimes == mapping.json["primeComponents"]

\* the document has a multiplicity-1 entry for the prime
HasEntry(p) == Str(p) \in DOMAIN DocumentPrimes /\ "1" \in DOMAIN DocumentPrimes[Str(p)]

\* the entry has the list of the direction
HasList(p, direction) == HasEntry(p) /\ direction \in DOMAIN DocumentPrimes[Str(p)]["1"]

\* the list is there and has no record
EmptyList(p, direction) ==
    HasList(p, direction) /\ Len(DocumentPrimes[Str(p)]["1"][direction]) = 0

\* the first record of the list is there and has a glyph
HasGlyph(p, direction) ==
    /\ HasList(p, direction)
    /\ Len(DocumentPrimes[Str(p)]["1"][direction]) > 0
    /\ "glyph" \in DOMAIN DocumentPrimes[Str(p)]["1"][direction][1]

\* the number of scalars of the first glyph of the direction, 0 when the
\* entry, the list, the record or the glyph is missing
Scalars(p, direction) ==
    IF HasGlyph(p, direction)
    THEN Len(DocumentPrimes[Str(p)]["1"][direction][1]["glyph"])
    ELSE 0

\* the echo has printed the line of the prime
Printed(p) == \E k \in DOMAIN out : k > Len(ReportKinds) /\ out[k].x = p

\* the final loop has finished the iteration of the k-th echoed prime
EchoPassed(k) == pc \in {"echo", "done"} /\ echo_idx >= k

\* the final loop has raised in the iteration of the k-th echoed prime
EchoAbortedAt(k) == pc = "aborted" /\ out # <<>> /\ echo_idx = k - 1

\* the entry of the prime, its down or up list, or the glyph of the first
\* record of one of them is missing from the document
SomethingMissing(p) ==
    \/ ~HasEntry(p)
    \/ \E direction \in {"down", "up"} :
          \/ ~HasList(p, direction)
          \/ /\ Len(DocumentPrimes[Str(p)]["1"][direction]) > 0
             /\ ~HasGlyph(p, direction)

\* C9 as claimed: in the iteration of 29 and of 31, the line is printed
\* exactly when both first glyphs are non-empty; a prime with its entry, a
\* list or a glyph missing is skipped and the run goes on; a glyph of more
\* than one scalar aborts the run.  (A list that is present but empty, of
\* which the claim says nothing, is left out of the second part.)
C9_EchoAsClaimed ==
    \A k \in DOMAIN ECHO_PRIMES :
        /\ EchoPassed(k) =>
              (Printed(ECHO_PRIMES[k]) <=>
                  (Scalars(ECHO_PRIMES[k], "down") > 0 /\ Scalars(ECHO_PRIMES[k], "up") > 0))
        /\ ((EchoPassed(k) \/ EchoAbortedAt(k)) /\ SomethingMissing(ECHO_PRIMES[k])
            /\ ~EmptyList(ECHO_PRIMES[k], "down") /\ ~EmptyList(ECHO_PRIMES[k], "up")) =>
              (EchoPassed(k) /\ ~Printed(ECHO_PRIMES[k]))
        /\ ((EchoPassed(k) \/ EchoAbortedAt(k))
            /\ (Scalars(ECHO_PRIMES[k], "down") > 1 \/ Scalars(ECHO_PRIMES[k], "up") > 1)) =>
              EchoAbortedAt(k)

\* C9 as amended: an iteration of the final loop aborts the run exactly when
\* the down or the up list of the prime is present but empty, or both first
\* glyphs are non-empty and one of them has more than one scalar; otherwise
\* it prints the line of the prime exactly when both first glyphs are
\* non-empty (and then both are single scalars, the codepoints printed).  So
\* a prime whose entry, list key or glyph key is missing, or one of whose
\* glyphs is empty, is skipped without aborting when no list of it is empty,
\* whatever its other glyph is.
C9_EchoAmended ==
    \A k \in DOMAIN ECHO_PRIMES :
        LET p == ECHO_PRIMES[k]
            raises == \/ EmptyList(p, "down")
                      \/ EmptyList(p, "up")
                      \/ /\ Scalars(p, "down") > 0
                         /\ Scalars(p, "up") > 0
                         /\ (Scalars(p, "down") > 1 \/ Scalars(p, "up") > 1)
        IN  /\ EchoPassed(k) =>
                  /\ ~raises
                  /\ Printed(p) <=> (Scalars(p, "down") > 0 /\ Scalars(p, "up") > 0)
                  /\ Printed(p) =>
                        \E j \in DOMAIN out :
                            /\ j > Len(ReportKinds)
                            /\ out[j] = Line("prime", "", p,
                                  DocumentPrimes[Str(p)]["1"]["down"][1]["glyph"][1],
                                  DocumentPrimes[Str(p)]["1"]["up"][1]["glyph"][1])
            /\ EchoAbortedAt(k) => raises /\ ~Printed(p)

\* 29 is skipped with a down glyph of two scalars and no up list, 31 is printed
C9_Witness ==
    /\ pc = "done"
    /\ Scalars(29, "down") = 2
    /\ ~HasList(29, "up")
    /\ ~Printed(29)
    /\ Printed(31)

\* a direct call of the function has returned
Returned(fn) == pc = "returned" /\ arg.fn = fn

\* C5: codepoint_for_glyph raises the empty-glyph error for the string of no
\* scalar, another error, the multiple-scalars one, for a string of two or
\* more, and returns the scalar of a string of one unchanged, above 0xFFFF
\* too.  (Both errors are Python ValueErrors; their messages tell them apart.)
C5_Resolver ==
    Returned("codepoint_for_glyph") =>
        /\ Len(arg.x) = 0 =>
              /\ ~ret.ok
              /\ ret.err = Error("ValueError", "empty glyph", 0, 0)
        /\ Len(arg.x) >= 2 =>
              /\ ~ret.ok
              /\ ret.err = Error("ValueError", "multiple scalars", 0, 0)
              /\ ret.err # Error("ValueError", "empty glyph", 0, 0)
        /\ Len(arg.x) = 1 =>
              /\ ret.ok
              /\ ret.val = arg.x[1]
              /\ ret.err = NoError

\* the scalar U+1D12A, outside the 16-bit range, is returned
C5_Witness ==
    /\ Returned("codepoint_for_glyph")
    /\ arg.x = <<119082>>
    /\ ret.ok
    /\ ret.val = 119082

\* the subtables of the cmap of the font file
TablesOf(font_name) == fonts[font_name].tables

\* the codepoints of the unioned character map of the font file
KeysOf(font_name) == UNION {DOMAIN TablesOf(font_name)[i] : i \in DOMAIN TablesOf(font_name)}

\* the last subtable of the font that has the codepoint
LastTableWith(font_name, cp) ==
    CHOOSE i \in DOMAIN TablesOf(font_name) :
        /\ cp \in DOMAIN TablesOf(font_name)[i]
        /\ \A j \in DOMAIN TablesOf(font_name) : cp \in DOMAIN TablesOf(font_name)[j] => j <= i

\* C8: the key set of load_cmap's result is the union of the key sets of the
\* font's cmap subtables, the glyph name of a codepoint is the one of the
\* last subtable that has it; all_codepoints returns the union of the key
\* sets of all subtables of all fonts.
C8_CmapUnion ==
    /\ Returned("load_cmap") =>
          /\ DOMAIN ret = KeysOf(arg.x)
          /\ \A i \in DOMAIN TablesOf(arg.x) : DOMAIN TablesOf(arg.x)[i] \subseteq DOMAIN ret
          /\ \A cp \in DOMAIN ret :
                ret[cp] = TablesOf(arg.x)[LastTableWith(arg.x, cp)][cp]
    /\ Returned("all_codepoints") =>
          ret = UNION {KeysOf(FONT_PATHS[i]) : i \in DOMAIN FONT_PATHS}

\* U+E2EC is in two subtables under two names, the second one is returned
C8_Witness ==
    /\ Returned("load_cmap")
    /\ Len(TablesOf(arg.x)) = 2
    /\ 58092 \in DOMAIN TablesOf(arg.x)[1]
    /\ 58092 \in DOMAIN TablesOf(arg.x)[2]
    /\ TablesOf(arg.x)[1][58092] # TablesOf(arg.x)[2][58092]
    /\ ret[58092] = TablesOf(arg.x)[2][58092]

\* four times the ink, in pixels, of the glyphs of the i-th candidate pair
\* that the fonts have: the mean over the fonts of the average over the pair
\* of ink / total, times RATIO_DEN
MeanInk(i) ==
    Sum([j \in DOMAIN FONT_PATHS |->
           Sum([k \in DOMAIN PRIME_29_31_CANDIDATE_PAIRS[i] |->
                  IF PRIME_29_31_CANDIDATE_PAIRS[i][k] \in KeysOf(FONT_PATHS[j])
                  THEN fonts[FONT_PATHS[j]].ink[PRIME_29_31_CANDIDATE_PAIRS[i][k]]
                  ELSE 0])])

\* the candidate pair of the recommendation line, the last line printed
Recommended == <<out[Len(out)].x, out[Len(out)].y>>

C7_AbsentGlyphIsZero ==
    /\ (Returned("glyph_metrics") /\ arg.y \notin KeysOf(arg.x)) => ret = <<0, 0>>
    /\ Returned("summarize_candidate_pairs") =>
          /\ Len(out) = 2 + Len(PRIME_29_31_CANDIDATE_PAIRS) * (1 + Len(FONT_PATHS))
          /\ out[Len(out)].kind = "bracket"
          /\ Recommended \in Range(PRIME_29_31_CANDIDATE_PAIRS)
          /\ \A i \in DOMAIN PRIME_29_31_CANDIDATE_PAIRS, j \in DOMAIN FONT_PATHS :
                Range(PRIME_29_31_CANDIDATE_PAIRS[i]) \cap KeysOf(FONT_PATHS[j]) = {} =>
                    /\ ret[i].by_font[j].avg_width = 0
                    /\ ret[i].by_font[j].avg_ink = 0

\* no candidate codepoint is in either font, the first pair is recommended
C7_Witness ==
    /\ Returned("summarize_candidate_pairs")
    /\ \A j \in DOMAIN FONT_PATHS : KeysOf(FONT_PATHS[j]) \cap CandidateCps = {}
    /\ Recommended = PRIME_29_31_CANDIDATE_PAIRS[1]

====
